---- MODULE Spec2Model ----
(***************************************************************************)
(* The Plant CRUD API of server/app.py: the collection resource Plants     *)
(* (GET, POST /plants) and the item resource PlantByID (GET, PATCH,        *)
(* DELETE /plants/<int:id>) over the plants table.                         *)
(*                                                                         *)
(* JSON values are kept as their JSON text ("true", "null", "12.5"), so    *)
(* that a boolean, a null and a string stay distinguishable values of one  *)
(* kind.  A JSON object is a record with one field per key the handlers    *)
(* or the requests use; a key the object does not carry holds Absent.      *)
(***************************************************************************)
EXTENDS Integers, Sequences, FiniteSets, TLC

\* Number of rows the model lets POST /plants create.
MaxPlants == 2

\* Number of rows the model lets POST /plants create while requests overlap.
MaxConcPlants == 2

VARIABLES
    table,          \* rows of the plants table, in Plant.query.all() order
    next_id,        \* primary key the persistence layer assigns next
    request,        \* the last request served
    response,       \* the response to it
    before,         \* the table when that request arrived
    before_next_id, \* next_id when that request arrived
    created,        \* <<record>> returned by the request served just before
                    \* the last one when that was a 201 POST, else << >>
    posted,         \* number of POST /plants answered 201
    deleted,        \* number of DELETE /plants/<id> answered 204
    issued,         \* ids returned by POST /plants so far
    removed,        \* ids of the rows DELETE /plants/<id> has removed
    session,        \* per overlapping request: position, request, loaded plant
    serial          \* the table had the overlapping requests run one at a time,
                    \* in the order of their commits

vars == <<table, next_id, request, response, before, before_next_id, created,
          posted, deleted, issued, removed, session, serial>>

seq_vars == <<request, response, before, before_next_id, created,
              posted, deleted, issued, removed>>

conc_vars == <<session, serial>>

-----------------------------------------------------------------------------
(* JSON values and request bodies *)

Absent == "<absent>"

Names == {"Fern", "Aloe"}

Images == {"fern.jpg"}

Prices == {"12.5"}

\* JSON values a client sends under the key is_in_stock.
InStockValues == {"true", "false", "null"}

IsBoolean(v) == v \in {"true", "false"}

\* No body at all (or one that is not JSON).
NoBody ==
    [kind |-> "none", name |-> Absent, image |-> Absent, price |-> Absent,
     is_in_stock |-> Absent, id |-> Absent]

\* A JSON body that is a number, not an object.
NumberBody ==
    [kind |-> "number", name |-> Absent, image |-> Absent, price |-> Absent,
     is_in_stock |-> Absent, id |-> Absent]

\* JSON objects sent to POST /plants: any of the three keys may be missing,
\* and a complete object may carry the extra key is_in_stock.
PostObjects ==
    [kind : {"object"}, name : Names \cup {Absent}, image : Images \cup {Absent},
     price : Prices \cup {Absent}, is_in_stock : {Absent}, id : {Absent}]
    \cup
    [kind : {"object"}, name : Names, image : Images, price : Prices,
     is_in_stock : {"false"}, id : {Absent}]

\* JSON objects sent to PATCH /plants/<id>: with or without is_in_stock,
\* alone or beside the key name or the key id.
PatchObjects ==
    [kind : {"object"}, name : {Absent, "Aloe"}, image : {Absent},
     price : {Absent}, is_in_stock : InStockValues \cup {Absent}, id : {Absent}]
    \cup
    [kind : {"object"}, name : {Absent}, image : {Absent},
     price : {Absent}, is_in_stock : InStockValues \cup {Absent}, id : {"2"}]

PostBodies == PostObjects \cup {NoBody, NumberBody}

PatchBodies == PatchObjects \cup {NoBody, NumberBody}

\* Path ids of requests: every id POST can assign, and one it never assigns.
PathIds == 1 .. (MaxPlants + 1)

-----------------------------------------------------------------------------
(* The Plant model and the persistence layer *)

\* The result of .first() on an empty query.
None ==
    [id |-> 0, name |-> Absent, image |-> Absent, price |-> Absent,
     is_in_stock |-> Absent]

\* Column default of is_in_stock.
DefaultInStock == "true"

\* Plant(name=..., image=..., price=...): a transient record, no id yet.
Plant(name, image, price) ==
    [id |-> 0, name |-> name, image |-> image, price |-> price,
     is_in_stock |-> DefaultInStock]

\* plant.to_dict(): the five columns of the row.
to_dict(plant) ==
    [id |-> plant.id, name |-> plant.name, image |-> plant.image,
     price |-> plant.price, is_in_stock |-> plant.is_in_stock]

MaxOf(S) == IF S = {} THEN 0 ELSE CHOOSE m \in S : \A n \in S : n <= m

Ids(t) == {t[i].id : i \in DOMAIN t}

\* Faulty variant: the key is one more than the largest key in the table.
primary_key_max_rowid(t, n) == MaxOf(Ids(t)) + 1

\* The primary key the persistence layer gives a new row: a key never used.
primary_key(t, n) == n

\* Faulty variant: only the plants in stock are listed.
query_all_in_stock(t) == SelectSeq(t, LAMBDA r : r.is_in_stock = "true")

\* Plant.query.all()
query_all(t) == t

\* Plant.query.filter_by(id=id)
filter_by_id(t, id) == SelectSeq(t, LAMBDA r : r.id = id)

\* .first()
first(rows) == IF rows = << >> THEN None ELSE rows[1]

\* Faulty variant: the names are swapped between the payload and the columns.
new_plant_swapped(data) == Plant(data.image, data.name, data.price)

\* Plant(name=data["name"], image=data["image"], price=data["price"])
new_plant(data) == Plant(data.name, data.image, data.price)

\* Whether data["name"], data["image"] or data["price"] raises KeyError.
MissingKey(data) ==
    data.name = Absent \/ data.image = Absent \/ data.price = Absent

\* db.session.add(new_plant); db.session.commit(): INSERT of the new row.
commit_insert(t, plant, id) == Append(t, [plant EXCEPT !.id = id])

\* Faulty variant: plant.is_in_stock = data.get("is_in_stock"), which stores
\* null when the key is missing.
set_is_in_stock_get(plant, data) ==
    [plant EXCEPT !.is_in_stock =
        IF data.is_in_stock # Absent THEN data.is_in_stock ELSE "null"]

\* if "is_in_stock" in data: plant.is_in_stock = data["is_in_stock"]
set_is_in_stock(plant, data) ==
    IF data.is_in_stock # Absent
    THEN [plant EXCEPT !.is_in_stock = data.is_in_stock]
    ELSE plant

\* Whether the flush has anything to write: an attribute set to the value it
\* was loaded with is no net change.
Dirty(loaded, plant) == plant # loaded

\* Faulty variant: the UPDATE has no WHERE clause.
commit_update_all_rows(t, loaded, plant) ==
    IF Dirty(loaded, plant)
    THEN [i \in DOMAIN t |-> [t[i] EXCEPT !.is_in_stock = plant.is_in_stock]]
    ELSE t

\* db.session.add(plant); db.session.commit(): UPDATE of the changed column
\* of the row with the plant's primary key, when there is a net change.
commit_update(t, loaded, plant) ==
    IF Dirty(loaded, plant)
    THEN [i \in DOMAIN t |->
            IF t[i].id = plant.id
            THEN [t[i] EXCEPT !.is_in_stock = plant.is_in_stock]
            ELSE t[i]]
    ELSE t

\* Faulty variant: the deletion is never committed.
commit_delete_lost(t, plant) == t

\* db.session.delete(plant); db.session.commit(): DELETE of the row with the
\* plant's primary key.
commit_delete(t, plant) == SelectSeq(t, LAMBDA r : r.id # plant.id)

-----------------------------------------------------------------------------
(* Responses *)

Response(status, kind, plants, error) ==
    [status |-> status, kind |-> kind, plants |-> plants, error |-> error]

\* make_response(jsonify(plants), 200)
plants_response(rows) ==
    Response(200, "array", [i \in DOMAIN rows |-> to_dict(rows[i])], "")

\* make_response(jsonify(plant.to_dict()), status)
plant_response(plant, status) == Response(status, "object", <<to_dict(plant)>>, "")

\* Faulty variant: the error is reported under another status.
plant_not_found_400 == Response(400, "error", << >>, "Plant not found")

\* make_response(jsonify({"error": "Plant not found"}), 404)
plant_not_found == Response(404, "error", << >>, "Plant not found")

\* make_response("", 204)
no_content == Response(204, "empty", << >>, "")

\* An exception leaves the handler: the framework answers 500.
server_error == Response(500, "exception", << >>, "")

\* request.get_json() on a request without a JSON body aborts the request;
\* the status is 415 or 400 depending on the framework version and on the
\* Content-Type header.
JsonAbortStatuses == {400, 415}

json_abort(status) == Response(status, "abort", << >>, "")

Request(method, path, id, body) ==
    [method |-> method, path |-> path, id |-> id, body |-> body]

NoRequest == Request("", "", 0, NoBody)

NoResponse == Response(0, "", << >>, "")

-----------------------------------------------------------------------------
(* Requests served one at a time *)

\* One request served: what it was, what it answered, what it left behind.
Serve(req, resp, t2, n2) ==
    /\ request' = req
    /\ response' = resp
    /\ before' = table
    /\ before_next_id' = next_id
    /\ created' = IF response.status = 201 THEN response.plants ELSE << >>
    /\ table' = t2
    /\ next_id' = n2
    /\ posted' = IF resp.status = 201 THEN posted + 1 ELSE posted
    /\ deleted' = IF resp.status = 204 THEN deleted + 1 ELSE deleted
    /\ issued' = IF resp.status = 201 THEN issued \cup {resp.plants[1].id} ELSE issued
    /\ removed' = IF resp.status = 204 THEN removed \cup {req.id} ELSE removed
    /\ UNCHANGED conc_vars

\* Plants.get
Plants_get ==
    \E plants \in {query_all(table)} :
        LET req == Request("GET", "/plants", 0, NoBody)
        IN  Serve(req, plants_response(plants), table, next_id)

\* Plants.post
Plants_post ==
    \E data \in PostBodies :
        LET req == Request("POST", "/plants", 0, data)
        IN  IF data.kind = "none"
            THEN \E status \in JsonAbortStatuses :
                    Serve(req, json_abort(status), table, next_id)
            ELSE IF data.kind # "object" \/ MissingKey(data)
            THEN Serve(req, server_error, table, next_id)
            ELSE /\ next_id <= MaxPlants
                 /\ LET id == primary_key(table, next_id)
                        t2 == commit_insert(table, new_plant(data), id)
                    IN  Serve(req, plant_response(first(filter_by_id(t2, id)), 201),
                              t2, id + 1)

\* PlantByID.get
PlantByID_get ==
    \E id \in PathIds :
        LET req == Request("GET", "/plants/<int:id>", id, NoBody)
            plant == first(filter_by_id(table, id))
        IN  IF plant = None
            THEN Serve(req, plant_not_found, table, next_id)
            ELSE Serve(req, plant_response(plant, 200), table, next_id)

\* PlantByID.patch
PlantByID_patch ==
    \E id \in PathIds, data \in PatchBodies :
        LET req == Request("PATCH", "/plants/<int:id>", id, data)
            plant == first(filter_by_id(table, id))
        IN  IF data.kind = "none"
            THEN \E status \in JsonAbortStatuses :
                    Serve(req, json_abort(status), table, next_id)
            ELSE IF plant = None
            THEN Serve(req, plant_not_found, table, next_id)
            ELSE IF data.kind # "object"
            THEN Serve(req, server_error, table, next_id)
            ELSE LET t2 == commit_update(table, plant, set_is_in_stock(plant, data))
                 IN  Serve(req, plant_response(first(filter_by_id(t2, id)), 200),
                           t2, next_id)

\* PlantByID.delete
PlantByID_delete ==
    \E id \in PathIds :
        LET req == Request("DELETE", "/plants/<int:id>", id, NoBody)
            plant == first(filter_by_id(table, id))
        IN  IF plant = None
            THEN Serve(req, plant_not_found, table, next_id)
            ELSE Serve(req, no_content, commit_delete(table, plant), next_id)

Workers == {1, 2}

IdleSession ==
    [pc |-> "idle", request |-> NoRequest, loaded |-> None,
     response |-> NoResponse, row_at_commit |-> "none"]

Init ==
    /\ table = << >>
    /\ next_id = 1
    /\ request = NoRequest
    /\ response = NoResponse
    /\ before = << >>
    /\ before_next_id = 1
    /\ created = << >>
    /\ posted = 0
    /\ deleted = 0
    /\ issued = {}
    /\ removed = {}
    /\ session = [w \in Workers |-> IdleSession]
    /\ serial = << >>

Next ==
    \/ Plants_get
    \/ Plants_post
    \/ PlantByID_get
    \/ PlantByID_patch
    \/ PlantByID_delete

Spec == Init /\ [][Next]_vars

-----------------------------------------------------------------------------
(* Requests that overlap: each handler is its lookup, then its commit *)

\* JSON objects the overlapping PATCH requests send.
ConcPatchObjects ==
    [kind : {"object"}, name : {Absent}, image : {Absent}, price : {Absent},
     is_in_stock : {Absent, "true", "false"}, id : {Absent}]

ConcPathIds == 1 .. MaxConcPlants

\* What PlantByID.patch does to a table when nothing overlaps it.
serial_patch(t, id, data) ==
    LET plant == first(filter_by_id(t, id))
    IN  IF plant = None THEN t
        ELSE commit_update(t, plant, set_is_in_stock(plant, data))

\* What PlantByID.delete does to a table when nothing overlaps it.
serial_delete(t, id) ==
    LET plant == first(filter_by_id(t, id))
    IN  IF plant = None THEN t ELSE commit_delete(t, plant)

Free(w) == session[w].pc \in {"idle", "done"}

\* Plants.post, which has no lookup: one step.
conc_post ==
    /\ next_id <= MaxConcPlants
    /\ \E data \in {d \in PostObjects : ~MissingKey(d) /\ d.is_in_stock = Absent} :
        LET id == primary_key(table, next_id)
        IN  /\ table' = commit_insert(table, new_plant(data), id)
            /\ serial' = commit_insert(serial, new_plant(data), id)
            /\ next_id' = id + 1
    /\ UNCHANGED <<session, seq_vars>>

\* PlantByID.patch up to the lookup and the test for None.
patch_lookup(w) ==
    /\ Free(w)
    /\ \E id \in ConcPathIds, data \in ConcPatchObjects :
        LET req == Request("PATCH", "/plants/<int:id>", id, data)
            plant == first(filter_by_id(table, id))
        IN  session' = [session EXCEPT ![w] =
                IF plant = None
                THEN [pc |-> "done", request |-> req, loaded |-> None,
                      response |-> plant_not_found, row_at_commit |-> "none"]
                ELSE [pc |-> "loaded", request |-> req, loaded |-> plant,
                      response |-> NoResponse, row_at_commit |-> "none"]]
    /\ UNCHANGED <<table, next_id, serial, seq_vars>>

\* PlantByID.patch from the assignment on: the flush writes the changed
\* column to the row with the plant's key; an UPDATE that matches no row, or
\* a plant whose row is gone when to_dict reads it back, raises.
patch_commit(w) ==
    /\ session[w].pc = "loaded"
    /\ session[w].request.method = "PATCH"
    /\ LET loaded == session[w].loaded
           data == session[w].request.body
           plant == set_is_in_stock(loaded, data)
           t2 == commit_update(table, loaded, plant)
           row == first(filter_by_id(t2, loaded.id))
       IN  /\ table' = t2
           /\ serial' = serial_patch(serial, loaded.id, data)
           /\ session' = [session EXCEPT ![w] =
                [@ EXCEPT !.pc = "done",
                          !.row_at_commit = IF row = None THEN "gone" ELSE "there",
                          !.response = IF row = None THEN server_error
                                       ELSE plant_response(row, 200)]]
    /\ UNCHANGED <<next_id, seq_vars>>

\* PlantByID.delete up to the lookup and the test for None.
delete_lookup(w) ==
    /\ Free(w)
    /\ \E id \in ConcPathIds :
        LET req == Request("DELETE", "/plants/<int:id>", id, NoBody)
            plant == first(filter_by_id(table, id))
        IN  session' = [session EXCEPT ![w] =
                IF plant = None
                THEN [pc |-> "done", request |-> req, loaded |-> None,
                      response |-> plant_not_found, row_at_commit |-> "none"]
                ELSE [pc |-> "loaded", request |-> req, loaded |-> plant,
                      response |-> NoResponse, row_at_commit |-> "none"]]
    /\ UNCHANGED <<table, next_id, serial, seq_vars>>

\* PlantByID.delete from db.session.delete on: a DELETE that matches no row is
\* a warning, not an error.
delete_commit(w) ==
    /\ session[w].pc = "loaded"
    /\ session[w].request.method = "DELETE"
    /\ LET loaded == session[w].loaded
           row == first(filter_by_id(table, loaded.id))
       IN  /\ table' = commit_delete(table, loaded)
           /\ serial' = serial_delete(serial, loaded.id)
           /\ session' = [session EXCEPT ![w] =
                [@ EXCEPT !.pc = "done",
                          !.row_at_commit = IF row = None THEN "gone" ELSE "there",
                          !.response = no_content]]
    /\ UNCHANGED <<next_id, seq_vars>>

NextConc ==
    \/ conc_post
    \/ \E w \in Workers : patch_lookup(w)
    \/ \E w \in Workers : patch_commit(w)
    \/ \E w \in Workers : delete_lookup(w)
    \/ \E w \in Workers : delete_commit(w)

SpecConc == Init /\ [][NextConc]_vars

-----------------------------------------------------------------------------
(* Properties of the requests served one at a time *)

ItemPath == "/plants/<int:id>"

IsItem(method) == request.method = method /\ request.path = ItemPath

\* The row the last request's path id named, as it was when the request came.
Target == first(filter_by_id(before, request.id))

IdSeq(t) == [i \in DOMAIN t |-> t[i].id]

ValidPost ==
    /\ request.method = "POST"
    /\ request.body.kind = "object"
    /\ ~MissingKey(request.body)

\* C1: a POST /plants whose payload holds name, image and price answers 201
\* with a record of exactly those three values and the default is_in_stock,
\* and adds exactly that one row; a GET /plants/{id} served next with the
\* returned id answers 200 with the same record.
C1_PostCreatesThenGetReturns ==
    /\ ValidPost =>
        /\ response.status = 201
        /\ response.kind = "object"
        /\ Len(response.plants) = 1
        /\ response.plants[1].name = request.body.name
        /\ response.plants[1].image = request.body.image
        /\ response.plants[1].price = request.body.price
        /\ response.plants[1].is_in_stock = DefaultInStock
        /\ Len(table) = Len(before) + 1
        /\ table = Append(before, response.plants[1])
    /\ (IsItem("GET") /\ created # << >> /\ request.id = created[1].id) =>
        /\ response.status = 200
        /\ response.kind = "object"
        /\ response.plants = created

C1_Witness ==
    /\ IsItem("GET")
    /\ created # << >>
    /\ request.id = created[1].id
    /\ created[1].name = "Aloe"
    /\ response.status = 200
    /\ Len(table) = 2

C3_ListLengthIsCreatedMinusDeleted ==
    /\ Len(table) = posted - deleted
    /\ (request.method = "GET" /\ request.path = "/plants") =>
        /\ response.status = 200
        /\ response.kind = "array"
        /\ Len(response.plants) = posted - deleted
        /\ response.plants = table
        /\ table = before
        /\ next_id = before_next_id
    /\ response.status \notin {201, 204} => Len(table) = Len(before)

C3_Witness ==
    /\ request.method = "GET"
    /\ request.path = "/plants"
    /\ posted = 2
    /\ deleted = 1
    /\ Len(response.plants) = 1
    /\ response.plants[1].is_in_stock = "false"

PatchOfExisting ==
    /\ IsItem("PATCH")
    /\ request.body.kind = "object"
    /\ Target # None

\* C4: a PATCH of an existing row whose body holds is_in_stock answers 200
\* with the row, sets the row's is_in_stock to the value sent, and leaves the
\* row's id, name, image and price and every other row as they were.
C4_PatchChangesOnlyInStock ==
    (PatchOfExisting /\ request.body.is_in_stock # Absent) =>
        /\ response.status = 200
        /\ response.kind = "object"
        /\ Len(table) = Len(before)
        /\ \A i \in DOMAIN before :
            /\ table[i].id = before[i].id
            /\ table[i].name = before[i].name
            /\ table[i].image = before[i].image
            /\ table[i].price = before[i].price
            /\ table[i].is_in_stock =
                IF before[i].id = request.id
                THEN request.body.is_in_stock
                ELSE before[i].is_in_stock
            /\ before[i].id = request.id => response.plants = <<table[i]>>

C4_Witness ==
    /\ PatchOfExisting
    /\ request.body.is_in_stock = "false"
    /\ request.body.name = "Aloe"
    /\ Target.is_in_stock = "true"
    /\ Target.name = "Fern"
    /\ response.status = 200
    /\ Len(table) = 2
    /\ \E i \in DOMAIN table : table[i].is_in_stock = "true"

\* C5: a PATCH of an existing row whose body is a JSON object without the key
\* is_in_stock, whatever other keys it holds, answers 200 with the row as it
\* was, and the table is the same before and after.
C5_PatchWithoutKeyChangesNothing ==
    (PatchOfExisting /\ request.body.is_in_stock = Absent) =>
        /\ response.status = 200
        /\ response.kind = "object"
        /\ response.plants = <<Target>>
        /\ table = before
        /\ next_id = before_next_id

C5_Witness ==
    /\ PatchOfExisting
    /\ request.body.is_in_stock = Absent
    /\ request.body.name = "Aloe"
    /\ Target.name = "Fern"
    /\ Target.is_in_stock = "false"
    /\ response.status = 200

NotFoundRequest ==
    /\ request.path = ItemPath
    /\ request.method \in {"GET", "PATCH", "DELETE"}
    /\ Target = None

\* C7 as stated: GET, PATCH and DELETE on an id that matches no row answer
\* 404 with {"error": "Plant not found"} whatever the body of the PATCH, a
\* missing body included, and leave the table as it was.
C7_NotFoundWhateverTheBody ==
    NotFoundRequest =>
        /\ response.status = 404
        /\ response.kind = "error"
        /\ response.error = "Plant not found"
        /\ table = before

\* C7 amended: GET, DELETE, and PATCH with a JSON body (an object with or
\* without is_in_stock, or any other JSON value) on an id that matches no row
\* answer 404 with {"error": "Plant not found"}; a PATCH without a JSON body
\* is answered 400 or 415 before the lookup; the table is left as it was in
\* every case.
C7_NotFoundWhenBodyIsJson ==
    NotFoundRequest =>
        /\ table = before
        /\ next_id = before_next_id
        /\ IF request.method = "PATCH" /\ request.body.kind = "none"
           THEN response.status \in {400, 415} /\ response.kind = "abort"
           ELSE /\ response.status = 404
                /\ response.kind = "error"
                /\ response.error = "Plant not found"

C7_Witness ==
    /\ NotFoundRequest
    /\ request.method = "PATCH"
    /\ request.body.is_in_stock = "false"
    /\ request.id \notin issued
    /\ Len(table) = 2
    /\ response.status = 404

\* C8 as stated: a POST /plants whose JSON object lacks name, image or price
\* answers 400, and the table and the next id are as before the request.
C8_MissingFieldAnswers400 ==
    (request.method = "POST" /\ request.body.kind = "object"
        /\ MissingKey(request.body)) =>
        /\ response.status = 400
        /\ table = before
        /\ next_id = before_next_id

\* C9 as stated: the is_in_stock of every row, and of every Plant object a
\* response carries, is a boolean.
C9_InStockIsBoolean ==
    /\ \A i \in DOMAIN table : IsBoolean(table[i].is_in_stock)
    /\ \A i \in DOMAIN response.plants : IsBoolean(response.plants[i].is_in_stock)

-----------------------------------------------------------------------------
(* Properties of the requests that overlap *)

Quiescent == \A w \in Workers : session[w].pc # "loaded"

\* C10 as stated: once the overlapping requests have committed, the table is
\* the one their one-at-a-time run in commit order produces (the last commit
\* wins); no row is recreated; no PATCH answers 200 for a row that was gone
\* when it committed.
C10_LastCommittedWins ==
    /\ Quiescent => table = serial
    /\ Ids(table) = Ids(serial)
    /\ \A w \in Workers :
        (session[w].request.method = "PATCH" /\ session[w].response.status = 200)
            => session[w].row_at_commit = "there"

====
